---- MODULE Spec2Model ----
(***************************************************************************)
(* EduNest course / task backend: the route handlers of                    *)
(* server/routes/courses.js and server/routes/tasks.js over the Course and *)
(* Task collections.                                                       *)
(*                                                                         *)
(* A handler is an async function: it runs without interruption up to an   *)
(* `await` of a database call, and other requests' steps may run between   *)
(* the database call taking effect and the next one.  Each action below is *)
(* one such uninterrupted piece: a database read or write together with    *)
(* the synchronous code that follows it up to the next database call.      *)
(*                                                                         *)
(* document.save() of an existing document sends the changes made to the   *)
(* local copy, not the copy: an Array.push becomes a $push on the stored   *)
(* array, an assignment of a different value a $set of that one path, an   *)
(* assignment of the value the path already had nothing at all.            *)
(*                                                                         *)
(* Spec lets requests overlap, starting from the empty store; SeqSpec runs *)
(* each request to completion before the next; OverlapSpec lets requests   *)
(* overlap from a store that holds a course, a student and a task.         *)
(*                                                                         *)
(* Not modelled: submittedAt / createdAt (the clock), the uploaded file's  *)
(* bytes on disk, populate() in the GET routes (they write nothing).       *)
(***************************************************************************)
EXTENDS Naturals, Sequences, FiniteSets, Bags, TLC

VARIABLES
  courses,   \* the Course collection: courses[c] is the document with _id c
  tasks,     \* the Task collection: tasks[t] is the document with _id t
  origin,    \* history: origin[t] = who created task t, through which route,
             \* for which course id of the request
  inflight,  \* bag of the requests between two of their database calls
  resp,      \* the response sent by the last step (NoResp when it sent none)
  nreq       \* number of requests received so far

vars == <<courses, tasks, origin, inflight, resp, nreq>>

\* ------------------------------------------------------------------ bounds
MaxRequests == 5
MaxInflight == 2

\* ------------------------------------------------------------------ callers
Users == {"A", "B", "S"}

\* req.user.role, as the auth middleware takes it from the token
Role(u) == IF u = "S" THEN "student" ELSE "instructor"

\* ------------------------------------------------------------------ values
\* "" stands for a string field that is undefined or empty (both falsy, both
\* refused by `required`), 0 for a date that is missing, " " for a string of
\* white space only.
EmptyBody ==
  [title |-> "", description |-> "", category |-> "", dueDate |-> 0,
   content |-> "", file |-> ""]

CourseCreateBodies ==
  {[EmptyBody EXCEPT !.title = "t1", !.description = "d1", !.category = "c1"]}

\* no recognised field, only {title}, only {description}
CourseUpdateBodies ==
  {EmptyBody,
   [EmptyBody EXCEPT !.title = "t2"],
   [EmptyBody EXCEPT !.description = "d2"]}

\* all three required fields, and one with the title missing
TaskCreateBodies ==
  {[EmptyBody EXCEPT !.title = t, !.description = "d1", !.dueDate = 1] :
     t \in {"", "t1"}}

\* the same, with and without an uploaded file
AddTaskBodies ==
  {[EmptyBody EXCEPT !.title = "t1", !.description = "d1", !.dueDate = 1,
                     !.file = f] : f \in {"", "f1"}}
  \cup {[EmptyBody EXCEPT !.description = "d1", !.dueDate = 1]}

\* no recognised field, one field each, and a title of white space
TaskUpdateBodies ==
  {EmptyBody,
   [EmptyBody EXCEPT !.title = "t2"],
   [EmptyBody EXCEPT !.title = " "],
   [EmptyBody EXCEPT !.description = "d2"],
   [EmptyBody EXCEPT !.dueDate = 2]}

SubmitBodies == {[EmptyBody EXCEPT !.content = c] : c \in {"x", "y"}}

NoCourse ==
  [title |-> "", description |-> "", category |-> "", instructor |-> "",
   students |-> <<>>, tasks |-> <<>>]

NoTask ==
  [title |-> "", description |-> "", dueDate |-> 0, course |-> 0,
   file |-> "", submissions |-> <<>>]

\* ------------------------------------------------------------------ helpers
InSeq(x, s) == \E i \in 1..Len(s) : s[i] = x

Count(x, s) == Cardinality({i \in 1..Len(s) : s[i] = x})

IsPrefix(s, t) == Len(s) <= Len(t) /\ \A i \in 1..Len(s) : t[i] = s[i]

\* (the field assigned as given: "set to empty" instead of "merge")
OrElse_Overwrite(a, b) == a

\* JavaScript's  a || b  for a string field (undefined and "" are falsy) ...
OrElse(a, b) == IF a # "" THEN a ELSE b

\* ... and for a date field (undefined is falsy)
OrElseDate(a, b) == IF a # 0 THEN a ELSE b

\* Course.findById / Task.findById: the document, or null
CourseExists(c) == c \in 1..Len(courses)
TaskExists(t) == t \in 1..Len(tasks)
FindCourse(c) == IF CourseExists(c) THEN courses[c] ELSE NoCourse
FindTask(t) == IF TaskExists(t) THEN tasks[t] ELSE NoTask

\* the schema's  trim: true  on Task.title
Trim(s) == IF s = " " THEN "" ELSE s

\* Task schema: title, description, dueDate and course are  required: true
TaskValid(doc) ==
  /\ doc.title # ""
  /\ doc.description # ""
  /\ doc.dueDate # 0
  /\ doc.course # 0

\* Course schema: the array paths a new document starts with
CourseDefaults == [students |-> <<>>, tasks |-> <<>>]

\* new Course({title, description, category, instructor})
NewCourse(b, u) ==
  [title |-> b.title, description |-> b.description, category |-> b.category,
   instructor |-> u, students |-> CourseDefaults.students,
   tasks |-> CourseDefaults.tasks]

\* new Task({title, description, dueDate, course[, file]})
NewTask(b, c) ==
  [title |-> Trim(b.title), description |-> b.description,
   dueDate |-> b.dueDate, course |-> c, file |-> b.file,
   submissions |-> <<>>]

Request(op, u, id, b, pc, course, task, tid) ==
  [op |-> op, caller |-> u, id |-> id, body |-> b, pc |-> pc,
   course |-> course, task |-> task, tid |-> tid]

Response(op, u, id, b, status) ==
  [op |-> op, caller |-> u, id |-> id, body |-> b, status |-> status]

\* An error response: the status and a message, the same whatever the body
\* of the request was.
Failed(op, u, id, status) == Response(op, u, id, EmptyBody, status)

NoResp == Response("none", "", 0, EmptyBody, 0)

One(r) == SetToBag({r})

InFlight == BagToSet(inflight)

CanBegin(lim) == nreq < MaxRequests /\ BagCardinality(inflight) < lim

\* ------------------------------------------------------------------ Init
Init ==
  /\ courses = <<>>
  /\ tasks = <<>>
  /\ origin = <<>>
  /\ inflight = EmptyBag
  /\ resp = NoResp
  /\ nreq = 0

\* ------------------------------------------------- POST /  (courses)
\* (the role check left out)
CreateCourseAllowed_Anyone(u) == TRUE

CreateCourseAllowed(u) == Role(u) = "instructor"

CreateCourse(lim, u, b) ==
  /\ CanBegin(lim)
  /\ nreq' = nreq + 1
  /\ IF ~CreateCourseAllowed(u)
       THEN /\ courses' = courses
            /\ resp' = Failed("createCourse", u, 0, 403)
       ELSE /\ courses' = Append(courses, NewCourse(b, u))
            /\ resp' = Response("createCourse", u, 0, b, 201)
  /\ UNCHANGED <<tasks, origin, inflight>>

\* ------------------------------------------------- POST /:id/enroll
\* (an ObjectId compared with the token's string by ===: never equal)
AlreadyEnrolled_Never(course, u) == FALSE

AlreadyEnrolled(course, u) == InSeq(u, course.students)

EnrollBegin(lim, u, c) ==
  /\ CanBegin(lim)
  /\ nreq' = nreq + 1
  /\ LET course == FindCourse(c) IN
       IF ~CourseExists(c)
         THEN /\ resp' = Failed("enroll", u, c, 404)
              /\ inflight' = inflight
         ELSE IF AlreadyEnrolled(course, u)
           THEN /\ resp' = Failed("enroll", u, c, 400)
                /\ inflight' = inflight
           ELSE /\ resp' = NoResp
                /\ inflight' = inflight (+)
                     One(Request("enroll", u, c, EmptyBody, "save",
                                 course, NoTask, 0))
  /\ UNCHANGED <<courses, tasks, origin>>

\* course.students.push(userId); await course.save()
EnrollSave(r) ==
  /\ r.op = "enroll" /\ r.pc = "save"
  /\ courses' = [courses EXCEPT ![r.id].students = Append(@, r.caller)]
  /\ inflight' = inflight (-) One(r)
  /\ resp' = Response("enroll", r.caller, r.id, r.body, 200)
  /\ UNCHANGED <<tasks, origin, nreq>>

\* ------------------------------------------------- PUT /:id  (courses)
OwnsCourse(course, u) == course.instructor = u

\* What course.save() stores of  course.title = title || course.title  and
\* course.description = description || course.description: a path is sent
\* only when its value differs from the one that was read.
SaveCourseUpdate(stored, local, b) ==
  LET title == OrElse(b.title, local.title)
      description == OrElse(b.description, local.description)
  IN [stored EXCEPT
        !.title = IF title # local.title THEN title ELSE @,
        !.description = IF description # local.description
                          THEN description ELSE @]

UpdateCourseBegin(lim, u, c, b) ==
  /\ CanBegin(lim)
  /\ nreq' = nreq + 1
  /\ LET course == FindCourse(c) IN
       IF ~CourseExists(c)
         THEN /\ resp' = Failed("updateCourse", u, c, 404)
              /\ inflight' = inflight
         ELSE IF ~OwnsCourse(course, u)
           THEN /\ resp' = Failed("updateCourse", u, c, 403)
                /\ inflight' = inflight
           ELSE /\ resp' = NoResp
                /\ inflight' = inflight (+)
                     One(Request("updateCourse", u, c, b, "save",
                                 course, NoTask, 0))
  /\ UNCHANGED <<courses, tasks, origin>>

UpdateCourseSave(r) ==
  /\ r.op = "updateCourse" /\ r.pc = "save"
  /\ courses' = [courses EXCEPT ![r.id] = SaveCourseUpdate(@, r.course, r.body)]
  /\ inflight' = inflight (-) One(r)
  /\ resp' = Response("updateCourse", r.caller, r.id, r.body, 200)
  /\ UNCHANGED <<tasks, origin, nreq>>

\* ------------------------------------------------- POST /:id/tasks  (courses)
\* (the ownership check left out)
MayAddTask_Anyone(course, u) == TRUE

MayAddTask(course, u) == course.instructor = u

\* (save() sending the local array whole)
PushTaskId_WholeArray(stored, local, tid) == Append(local, tid)

\* What course.save() stores of  course.tasks.push(task._id)
PushTaskId(stored, local, tid) == Append(stored, tid)

AddTaskBegin(lim, u, c, b) ==
  /\ CanBegin(lim)
  /\ nreq' = nreq + 1
  /\ LET course == FindCourse(c)
         task == NewTask(b, c)
     IN
       IF ~CourseExists(c)
         THEN /\ resp' = Failed("addTask", u, c, 404)
              /\ inflight' = inflight
         ELSE IF ~MayAddTask(course, u)
           THEN /\ resp' = Failed("addTask", u, c, 403)
                /\ inflight' = inflight
           ELSE IF ~TaskValid(task)
             THEN /\ resp' = Failed("addTask", u, c, 500)
                  /\ inflight' = inflight
             ELSE /\ resp' = NoResp
                  /\ inflight' = inflight (+)
                       One(Request("addTask", u, c, b, "saveTask",
                                   course, task, 0))
  /\ UNCHANGED <<courses, tasks, origin>>

\* await task.save()
AddTaskSaveTask(r) ==
  /\ r.op = "addTask" /\ r.pc = "saveTask"
  /\ tasks' = Append(tasks, r.task)
  /\ origin' = Append(origin, [by |-> r.caller, via |-> "addTask", on |-> r.id])
  /\ inflight' = (inflight (-) One(r)) (+)
       One([r EXCEPT !.pc = "saveCourse", !.tid = Len(tasks) + 1])
  /\ resp' = NoResp
  /\ UNCHANGED <<courses, nreq>>

\* course.tasks.push(task._id); await course.save()
AddTaskSaveCourse(r) ==
  /\ r.op = "addTask" /\ r.pc = "saveCourse"
  /\ courses' = [courses EXCEPT
                   ![r.id].tasks = PushTaskId(@, r.course.tasks, r.tid)]
  /\ inflight' = inflight (-) One(r)
  /\ resp' = Response("addTask", r.caller, r.id, r.body, 201)
  /\ UNCHANGED <<tasks, origin, nreq>>

\* ------------------------------------------------- POST /  (tasks)
MayCreateTask(course, u) == course.instructor = u

CreateTaskBegin(lim, u, c, b) ==
  /\ CanBegin(lim)
  /\ nreq' = nreq + 1
  /\ LET course == FindCourse(c)
         task == NewTask([b EXCEPT !.file = ""], c)
     IN
       IF Role(u) # "instructor"
         THEN /\ resp' = Failed("createTask", u, c, 403)
              /\ inflight' = inflight
         ELSE IF ~CourseExists(c)
           THEN /\ resp' = Failed("createTask", u, c, 404)
                /\ inflight' = inflight
           ELSE IF ~MayCreateTask(course, u)
             THEN /\ resp' = Failed("createTask", u, c, 403)
                  /\ inflight' = inflight
             ELSE IF ~TaskValid(task)
               THEN /\ resp' = Failed("createTask", u, c, 500)
                    /\ inflight' = inflight
               ELSE /\ resp' = NoResp
                    /\ inflight' = inflight (+)
                         One(Request("createTask", u, c, b, "save",
                                     course, task, 0))
  /\ UNCHANGED <<courses, tasks, origin>>

\* await task.save()
CreateTaskSave(r) ==
  /\ r.op = "createTask" /\ r.pc = "save"
  /\ tasks' = Append(tasks, r.task)
  /\ origin' = Append(origin,
                      [by |-> r.caller, via |-> "createTask", on |-> r.id])
  /\ inflight' = inflight (-) One(r)
  /\ resp' = Response("createTask", r.caller, r.id, r.body, 201)
  /\ UNCHANGED <<courses, nreq>>

\* ------------------------------------------------- POST /:id/submit
\* (the enrolment check left out)
Enrolled_Anyone(course, u) == TRUE

Enrolled(course, u) == InSeq(u, course.students)

\* (sub.student compared without toString(): never equal)
AlreadySubmitted_Never(task, u) == FALSE

AlreadySubmitted(task, u) ==
  \E i \in 1..Len(task.submissions) : task.submissions[i].student = u

NewSubmission(u, b) == [student |-> u, content |-> b.content]

\* await Task.findById(req.params.id)
SubmitBegin(lim, u, t, b) ==
  /\ CanBegin(lim)
  /\ nreq' = nreq + 1
  /\ IF ~TaskExists(t)
       THEN /\ resp' = Failed("submit", u, t, 404)
            /\ inflight' = inflight
       ELSE /\ resp' = NoResp
            /\ inflight' = inflight (+)
                 One(Request("submit", u, t, b, "course",
                             NoCourse, FindTask(t), 0))
  /\ UNCHANGED <<courses, tasks, origin>>

\* await Course.findById(task.course), the two checks, submissions.push
SubmitReadCourse(r) ==
  /\ r.op = "submit" /\ r.pc = "course"
  /\ LET course == FindCourse(r.task.course)
         status == IF ~CourseExists(r.task.course) THEN 500
                   ELSE IF ~Enrolled(course, r.caller) THEN 403
                   ELSE IF AlreadySubmitted(r.task, r.caller) THEN 400
                   ELSE 0
     IN IF status # 0
          THEN /\ resp' = Failed("submit", r.caller, r.id, status)
               /\ inflight' = inflight (-) One(r)
          ELSE /\ resp' = NoResp
               /\ inflight' = (inflight (-) One(r)) (+)
                    One([r EXCEPT !.pc = "save", !.course = course])
  /\ UNCHANGED <<courses, tasks, origin, nreq>>

\* What task.save() stores of  task.submissions.push({student, content, ...})
PushSubmission(stored, local, sub) == Append(stored, sub)

\* await task.save()
SubmitSave(r) ==
  /\ r.op = "submit" /\ r.pc = "save"
  /\ tasks' = [tasks EXCEPT
                 ![r.id].submissions =
                    PushSubmission(@, r.task.submissions,
                                   NewSubmission(r.caller, r.body))]
  /\ inflight' = inflight (-) One(r)
  /\ resp' = Response("submit", r.caller, r.id, r.body, 200)
  /\ UNCHANGED <<courses, origin, nreq>>

\* ------------------------------------------------- PUT /:id  (tasks)
\* (the ownership check left out: any instructor may update)
MayUpdateTask_AnyInstructor(course, u) == TRUE

MayUpdateTask(course, u) == course.instructor = u

\* The local task after  task.title = title || task.title  etc.
UpdatedTask(local, b) ==
  [local EXCEPT
     !.title = Trim(OrElse(b.title, local.title)),
     !.description = OrElse(b.description, local.description),
     !.dueDate = OrElseDate(b.dueDate, local.dueDate)]

\* (save() sending the local document whole)
SaveTaskUpdate_WholeDocument(stored, local, b) == UpdatedTask(local, b)

\* What task.save() stores of it: the paths whose value differs from the
\* one that was read.
SaveTaskUpdate(stored, local, b) ==
  LET new == UpdatedTask(local, b) IN
  [stored EXCEPT
     !.title = IF new.title # local.title THEN new.title ELSE @,
     !.description = IF new.description # local.description
                       THEN new.description ELSE @,
     !.dueDate = IF new.dueDate # local.dueDate THEN new.dueDate ELSE @]

\* the role check and  await Task.findById(req.params.id)
UpdateTaskBegin(lim, u, t, b) ==
  /\ CanBegin(lim)
  /\ nreq' = nreq + 1
  /\ IF Role(u) # "instructor"
       THEN /\ resp' = Failed("updateTask", u, t, 403)
            /\ inflight' = inflight
       ELSE IF ~TaskExists(t)
         THEN /\ resp' = Failed("updateTask", u, t, 404)
              /\ inflight' = inflight
         ELSE /\ resp' = NoResp
              /\ inflight' = inflight (+)
                   One(Request("updateTask", u, t, b, "course",
                               NoCourse, FindTask(t), 0))
  /\ UNCHANGED <<courses, tasks, origin>>

\* await Course.findById(task.course), the ownership check, the assignments
UpdateTaskReadCourse(r) ==
  /\ r.op = "updateTask" /\ r.pc = "course"
  /\ LET course == FindCourse(r.task.course)
         status == IF ~CourseExists(r.task.course) THEN 500
                   ELSE IF ~MayUpdateTask(course, r.caller) THEN 403
                   ELSE IF ~TaskValid(UpdatedTask(r.task, r.body)) THEN 500
                   ELSE 0
     IN IF status # 0
          THEN /\ resp' = Failed("updateTask", r.caller, r.id, status)
               /\ inflight' = inflight (-) One(r)
          ELSE /\ resp' = NoResp
               /\ inflight' = (inflight (-) One(r)) (+)
                    One([r EXCEPT !.pc = "save", !.course = course])
  /\ UNCHANGED <<courses, tasks, origin, nreq>>

\* await task.save()
UpdateTaskSave(r) ==
  /\ r.op = "updateTask" /\ r.pc = "save"
  /\ tasks' = [tasks EXCEPT ![r.id] = SaveTaskUpdate(@, r.task, r.body)]
  /\ inflight' = inflight (-) One(r)
  /\ resp' = Response("updateTask", r.caller, r.id, r.body, 200)
  /\ UNCHANGED <<courses, origin, nreq>>

\* ------------------------------------------------------------------ Next
\* Ids a request may name: every stored document's, and 0, which names none.
CourseIds == 0..Len(courses)
TaskIds == 0..Len(tasks)

\* lim: how many requests may be between two of their database calls at once
NextWith(lim) ==
  \/ \E u \in Users, b \in CourseCreateBodies : CreateCourse(lim, u, b)
  \/ \E u \in Users, c \in CourseIds : EnrollBegin(lim, u, c)
  \/ \E u \in Users, c \in CourseIds, b \in CourseUpdateBodies :
       UpdateCourseBegin(lim, u, c, b)
  \/ \E u \in Users, c \in CourseIds, b \in AddTaskBodies :
       AddTaskBegin(lim, u, c, b)
  \/ \E u \in Users, c \in CourseIds, b \in TaskCreateBodies :
       CreateTaskBegin(lim, u, c, b)
  \/ \E u \in Users, t \in TaskIds, b \in SubmitBodies :
       SubmitBegin(lim, u, t, b)
  \/ \E u \in Users, t \in TaskIds, b \in TaskUpdateBodies :
       UpdateTaskBegin(lim, u, t, b)
  \/ \E r \in InFlight : EnrollSave(r)
  \/ \E r \in InFlight : UpdateCourseSave(r)
  \/ \E r \in InFlight : AddTaskSaveTask(r)
  \/ \E r \in InFlight : AddTaskSaveCourse(r)
  \/ \E r \in InFlight : CreateTaskSave(r)
  \/ \E r \in InFlight : SubmitReadCourse(r)
  \/ \E r \in InFlight : SubmitSave(r)
  \/ \E r \in InFlight : UpdateTaskReadCourse(r)
  \/ \E r \in InFlight : UpdateTaskSave(r)

\* requests overlap
Next == NextWith(MaxInflight)

Spec == Init /\ [][Next]_vars

\* each request runs to completion before the next starts
SeqNext == NextWith(1)

SeqSpec == Init /\ [][SeqNext]_vars

\* The state after instructor A has created course 1, student S has enrolled
\* in it and A has created task 1 for it (three requests, each answered
\* before the next): where the requests that follow overlap.
OverlapInit ==
  LET body == [EmptyBody EXCEPT !.title = "t1", !.description = "d1",
                                !.dueDate = 1]
  IN /\ courses = <<[NewCourse([body EXCEPT !.category = "c1", !.dueDate = 0],
                               "A") EXCEPT !.students = <<"S">>]>>
     /\ tasks = <<NewTask(body, 1)>>
     /\ origin = <<[by |-> "A", via |-> "createTask", on |-> 1]>>
     /\ inflight = EmptyBag
     /\ resp = Response("createTask", "A", 1, body, 201)
     /\ nreq = 3

OverlapSpec == OverlapInit /\ [][Next]_vars

\* ================================================================ claims
HasSubmission(subs, u) == \E i \in 1..Len(subs) : subs[i].student = u

SubmissionsBy(subs, u) == Cardinality({i \in 1..Len(subs) : subs[i].student = u})

\* C1: with each request run to completion before the next starts, a submit
\* on an existing task by a caller who is not among the students of the
\* task's course is answered 403 and adds nothing; by an enrolled caller with
\* no submission yet it is answered 200 and appends exactly one submission,
\* the caller's; by an enrolled caller who has one it is answered 400 and
\* adds nothing; and no other step changes any task's submissions.
C1_SubmitOnceSequential ==
  [][ /\ (resp'.op = "submit" /\ TaskExists(resp'.id)) =>
           LET t == resp'.id
               u == resp'.caller
               students == courses[tasks[t].course].students
           IN IF ~InSeq(u, students)
                THEN resp'.status = 403 /\ tasks' = tasks
                ELSE IF HasSubmission(tasks[t].submissions, u)
                  THEN resp'.status = 400 /\ tasks' = tasks
                  ELSE /\ resp'.status = 200
                       /\ tasks' = [tasks EXCEPT ![t].submissions =
                            Append(@, [student |-> u,
                                       content |-> resp'.body.content])]
      /\ (resp'.op # "submit" \/ resp'.status # 200) =>
           \A t \in 1..Len(tasks) :
             tasks'[t].submissions = tasks[t].submissions
    ]_vars

\* a second submit of an enrolled student was answered 400
C1_Witness ==
  /\ resp.op = "submit" /\ resp.status = 400
  /\ TaskExists(resp.id)
  /\ SubmissionsBy(tasks[resp.id].submissions, resp.caller) = 1

\* C2: with each request run to completion before the next starts, an enroll
\* of a caller who is not among the students of the course is answered 200
\* and appends the caller; of one who is, 400 and changes no course; no other
\* step changes any course's students, and no user is twice among them.
C2_EnrollOnceSequential ==
  [][ /\ (resp'.op = "enroll" /\ CourseExists(resp'.id)) =>
           LET c == resp'.id
               u == resp'.caller
           IN IF InSeq(u, courses[c].students)
                THEN resp'.status = 400 /\ courses' = courses
                ELSE /\ resp'.status = 200
                     /\ courses' = [courses EXCEPT ![c].students = Append(@, u)]
      /\ (resp'.op # "enroll" \/ resp'.status # 200) =>
           \A c \in 1..Len(courses) :
             courses'[c].students = courses[c].students
      /\ \A c \in 1..Len(courses'), u \in Users :
           Count(u, courses'[c].students) <= 1
    ]_vars

\* a second enroll was answered 400 and the caller is once among the students
C2_Witness ==
  /\ resp.op = "enroll" /\ resp.status = 400
  /\ CourseExists(resp.id)
  /\ Count(resp.caller, courses[resp.id].students) = 1

\* C3: in every reachable state, overlapping submit requests included, no
\* student has more than one submission on a task.
C3_OneSubmissionPerStudent ==
  \A t \in 1..Len(tasks), u \in Users :
    SubmissionsBy(tasks[t].submissions, u) <= 1

\* C4: a createCourse of a caller whose role is not instructor is answered
\* 403 and leaves the courses as they were; of an instructor it is answered
\* 201 and stores one more course, with the caller as instructor, no student
\* and no task.
C4_CreateCourseByInstructorOnly ==
  [][ resp'.op = "createCourse" =>
        LET u == resp'.caller
            b == resp'.body
        IN IF Role(u) # "instructor"
             THEN resp'.status = 403 /\ courses' = courses
             ELSE /\ resp'.status = 201
                  /\ courses' = Append(courses,
                       [title |-> b.title, description |-> b.description,
                        category |-> b.category, instructor |-> u,
                        students |-> <<>>, tasks |-> <<>>])
    ]_vars

\* a student's createCourse was refused while a course was stored
C4_Witness ==
  /\ resp.op = "createCourse" /\ resp.status = 403
  /\ Len(courses) >= 1

\* C5: a createTask or addTask naming an existing course whose instructor is
\* not the caller is answered 403 and stores nothing; every stored task was
\* created by the instructor of its course.
C5_TasksByCourseInstructor ==
  [][ /\ ( /\ resp'.op \in {"createTask", "addTask"}
           /\ CourseExists(resp'.id)
           /\ courses[resp'.id].instructor # resp'.caller ) =>
           /\ resp'.status = 403
           /\ tasks' = tasks
           /\ courses' = courses
      /\ \A t \in 1..Len(tasks') :
           /\ tasks'[t].course \in 1..Len(courses')
           /\ origin'[t].by = courses'[tasks'[t].course].instructor
    ]_vars

\* an instructor's createTask on another instructor's course was refused
C5_Witness ==
  /\ resp.op = "createTask" /\ resp.status = 403
  /\ Role(resp.caller) = "instructor"
  /\ CourseExists(resp.id)
  /\ courses[resp.id].instructor # resp.caller

\* C6: with each request run to completion before the next starts, an
\* updateCourse answered 200 stores the title and the description of the
\* request where they are not empty and leaves everything else, of that
\* course and of all others, as it was; an updateTask answered 200 does the
\* same for title, description and dueDate.
C6_UpdateMergesGivenFields ==
  [][ /\ (resp'.op = "updateCourse" /\ resp'.status = 200) =>
           LET c == resp'.id
               b == resp'.body
           IN /\ courses' = [courses EXCEPT
                   ![c].title = IF b.title # "" THEN b.title ELSE @,
                   ![c].description =
                      IF b.description # "" THEN b.description ELSE @]
              /\ tasks' = tasks
      /\ (resp'.op = "updateTask" /\ resp'.status = 200) =>
           LET t == resp'.id
               b == resp'.body
           IN /\ tasks' = [tasks EXCEPT
                   ![t].title = IF b.title # "" THEN b.title ELSE @,
                   ![t].description =
                      IF b.description # "" THEN b.description ELSE @,
                   ![t].dueDate = IF b.dueDate # 0 THEN b.dueDate ELSE @]
              /\ courses' = courses
    ]_vars

\* an updateTask with only {title} succeeded: the task has the new title,
\* and the description and due date it was created with
C6_Witness ==
  /\ resp.op = "updateTask" /\ resp.status = 200
  /\ resp.body.title = "t2" /\ resp.body.description = ""
  /\ tasks[resp.id].title = "t2"
  /\ tasks[resp.id].description = "d1"
  /\ tasks[resp.id].dueDate = 1

NoAddTaskBetweenWrites ==
  \A r \in InFlight : ~(r.op = "addTask" /\ r.pc = "saveCourse")

AddTaskTasksReferenced ==
  \A t \in 1..Len(tasks) :
    origin[t].via = "addTask" =>
      /\ tasks[t].course = origin[t].on
      /\ \A c \in 1..Len(courses) :
           Count(t, courses[c].tasks) = IF c = tasks[t].course THEN 1 ELSE 0

AddTaskBetweenWritesOrphan ==
  \A r \in InFlight :
    (r.op = "addTask" /\ r.pc = "saveCourse") =>
      /\ TaskExists(r.tid)
      /\ tasks[r.tid].course = r.id
      /\ \A c \in 1..Len(courses) : ~InSeq(r.tid, courses[c].tasks)

\* C8: whenever no addTask is between its two writes, every task stored by
\* an addTask on course C has course = C and is referenced exactly once, by
\* C.tasks and by no other course; the addTask's second write appends the
\* task's id after the ids C.tasks held; and while an addTask is between its
\* two writes its task is stored and no course references it.
C8_AddTaskAppendsReference ==
  [][ /\ NoAddTaskBetweenWrites' => AddTaskTasksReferenced'
      /\ AddTaskBetweenWritesOrphan'
      /\ (resp'.op = "addTask" /\ resp'.status = 201) =>
           \E t \in 1..Len(tasks) :
             /\ origin[t].via = "addTask" /\ origin[t].on = resp'.id
             /\ ~InSeq(t, courses[resp'.id].tasks)
             /\ courses' = [courses EXCEPT ![resp'.id].tasks = Append(@, t)]
    ]_vars

\* two addTask requests on one course interleaved: the task stored second
\* was referenced first, and both are referenced
C8_Witness ==
  /\ NoAddTaskBetweenWrites
  /\ \E c \in 1..Len(courses) :
       /\ Len(courses[c].tasks) = 2
       /\ courses[c].tasks[1] > courses[c].tasks[2]

\* C9: in every step each stored task stays stored and its submissions keep
\* the previous ones as a prefix; they grow by at most one record, and do so
\* exactly in the step that answers a submit on that task 200, by the
\* caller's submission.
C9_SubmissionsAppendOnly ==
  [][ /\ Len(tasks) <= Len(tasks')
      /\ \A t \in 1..Len(tasks) :
           LET old == tasks[t].submissions
               new == tasks'[t].submissions
           IN /\ IsPrefix(old, new)
              /\ Len(new) <= Len(old) + 1
              /\ Len(new) = Len(old) + 1 <=>
                   (resp'.op = "submit" /\ resp'.status = 200 /\ resp'.id = t)
              /\ Len(new) = Len(old) + 1 =>
                   new[Len(new)] = [student |-> resp'.caller,
                                    content |-> resp'.body.content]
      /\ \A t \in (Len(tasks) + 1)..Len(tasks') : tasks'[t].submissions = <<>>
    ]_vars

\* an updateTask succeeded on a task that holds a submission
C9_Witness ==
  /\ resp.op = "updateTask" /\ resp.status = 200
  /\ Len(tasks[resp.id].submissions) >= 1

\* C10: in every reachable state the course of every task exists and every
\* submission's student is among that course's students.
C10_SubmittersAreEnrolled ==
  \A t \in 1..Len(tasks) :
    /\ CourseExists(tasks[t].course)
    /\ \A i \in 1..Len(tasks[t].submissions) :
         InSeq(tasks[t].submissions[i].student,
               courses[tasks[t].course].students)

\* a submit was answered 200 and its submission is stored
C10_Witness ==
  /\ resp.op = "submit" /\ resp.status = 200
  /\ HasSubmission(tasks[resp.id].submissions, resp.caller)

====
